---- MODULE Spec2Model ----
(***************************************************************************)
(* Place Notes (src/app.js): the location store, the place-search form     *)
(* with its rate limiter, the device-location fetch, the note form, the    *)
(* note-search form, the delete buttons of the note list and the IndexedDB *)
(* note store with its query functions, as one state machine.  Every       *)
(* action is one                                                           *)
(* run-to-completion piece of JavaScript: an event handler up to its first *)
(* await, or the continuation that runs when an awaited promise settles.   *)
(* Text that the code parses (query, lat, lon) is a sequence of one-       *)
(* character strings; a JavaScript number is Num(n) or NaN.                *)
(***************************************************************************)
EXTENDS Integers, Sequences, FiniteSets, TLC

(***************************************************************************)
(* Bounds of the model.                                                    *)
(***************************************************************************)
MaxElapsed == 1000      \* the clock runs from StartTime to StartTime + MaxElapsed
MaxSearches == 2        \* place searches in flight at once
MaxGeo == 2             \* device-location fetches outstanding at once
MaxSaves == 1           \* note writes in flight at once
MaxDisplays == 1        \* nearby-list reads in flight at once
MaxDeletes == 2         \* note deletions in flight at once
MaxNoteSearches == 1    \* note searches in flight at once
MaxApiCalls == 1        \* script calls of the query functions in flight at once

(***************************************************************************)
(* Program constants.                                                      *)
(***************************************************************************)
RateLimitMs == 1000     \* app.js:204
InitialLastSearchTime == 0  \* app.js:136
NearbyRadius == 100     \* app.js:346
DefaultRadius == 100    \* app.js:88
NoteSearchRadius == 100 \* app.js:266
StartTime == 1000       \* value of Date.now() when the page starts (tests)

(***************************************************************************)
(* JavaScript values.                                                      *)
(***************************************************************************)
Null == [null |-> TRUE]
Num(n) == [nan |-> FALSE, v |-> n]
NaN == [nan |-> TRUE, v |-> 0]

Whitespace == {" ", "\t", "\n"}
DigitChars == {"0", "1", "2", "3", "4", "5", "6", "7", "8", "9"}

DigitVal(c) ==
    CASE c = "0" -> 0 [] c = "1" -> 1 [] c = "2" -> 2 [] c = "3" -> 3
      [] c = "4" -> 4 [] c = "5" -> 5 [] c = "6" -> 6 [] c = "7" -> 7
      [] c = "8" -> 8 [] c = "9" -> 9

RECURSIVE SkipLeadingWs(_)
SkipLeadingWs(s) ==
    IF s # <<>> /\ Head(s) \in Whitespace THEN SkipLeadingWs(Tail(s)) ELSE s

RECURSIVE SkipTrailingWs(_)
SkipTrailingWs(s) ==
    IF s # <<>> /\ s[Len(s)] \in Whitespace
    THEN SkipTrailingWs(SubSeq(s, 1, Len(s) - 1))
    ELSE s

\* String.prototype.trim
Trim(s) == SkipTrailingWs(SkipLeadingWs(s))

RECURSIVE DigitPrefixLen(_)
DigitPrefixLen(s) ==
    IF s # <<>> /\ Head(s) \in DigitChars THEN 1 + DigitPrefixLen(Tail(s)) ELSE 0

RECURSIVE DigitsValue(_, _)
DigitsValue(s, acc) ==
    IF s = <<>> THEN acc ELSE DigitsValue(Tail(s), 10 * acc + DigitVal(Head(s)))

\* parseFloat on texts without a fraction or an exponent: leading white
\* space is skipped, an optional sign and the longest run of digits are
\* read, anything after them is ignored; no digit at all gives NaN.
ParseFloat(text) ==
    LET t == SkipLeadingWs(text)
        signed == t # <<>> /\ Head(t) \in {"-", "+"}
        body == IF signed THEN Tail(t) ELSE t
        k == DigitPrefixLen(body)
        mag == DigitsValue(SubSeq(body, 1, k), 0)
    IN  IF k = 0 THEN NaN
        ELSE Num(IF signed /\ Head(t) = "-" THEN 0 - mag ELSE mag)

(***************************************************************************)
(* distance (app.js:64-74): the haversine formula in fixed point.  An      *)
(* angle or a ratio x is held as the integer x * Scale; coordinates are    *)
(* whole degrees.  A NaN coordinate makes every intermediate value NaN,    *)
(* so the result is NaN.                                                   *)
(***************************************************************************)
Scale == 10000
PiScaled == 31416            \* Math.PI * Scale
EarthRadiusKm == 6371        \* R = 6371e3 metres

Mul(x, y) == (x * y) \div Scale

\* toRad = deg => deg * Math.PI / 180
ToRad(deg) ==
    IF deg < 0 THEN 0 - (((0 - deg) * PiScaled) \div 180)
    ELSE (deg * PiScaled) \div 180

RECURSIVE SinSeries(_, _, _, _)
SinSeries(x2, term, n, acc) ==
    IF term = 0 \/ n > 8 THEN acc
    ELSE LET next == 0 - (Mul(term, x2) \div ((2 * n) * (2 * n + 1)))
         IN  SinSeries(x2, next, n + 1, acc + next)

\* sin of an angle in [0, pi/2]
SinQuarter(x) == SinSeries(Mul(x, x), x, 1, x)

RECURSIVE Sin(_)
Sin(x) ==
    IF x < 0 THEN 0 - Sin(0 - x)
    ELSE IF x > PiScaled THEN 0 - Sin(x - PiScaled)
    ELSE IF 2 * x > PiScaled THEN SinQuarter(PiScaled - x)
    ELSE SinQuarter(x)

Cos(x) == Sin((PiScaled \div 2) - x)

RECURSIVE SqrtSearch(_, _, _)
SqrtSearch(v, lo, hi) ==
    IF lo >= hi THEN lo
    ELSE LET mid == (lo + hi + 1) \div 2
         IN  IF mid * mid <= v THEN SqrtSearch(v, mid, hi)
             ELSE SqrtSearch(v, lo, mid - 1)

\* Math.sqrt of a ratio in [0, 1]
Sqrt(x) == SqrtSearch(x * Scale, 0, Scale)

RECURSIVE AtanSeries(_, _, _, _)
AtanSeries(w2, power, n, acc) ==
    IF power = 0 \/ n > 8 THEN acc
    ELSE LET next == 0 - Mul(power, w2)
         IN  AtanSeries(w2, next, n + 1, acc + (next \div (2 * n + 1)))

\* atan of a ratio in [0, 1]
AtanUnit(z) ==
    IF 1000 * z > 414 * Scale
    THEN LET w == ((Scale - z) * Scale) \div (Scale + z)
         IN  (PiScaled \div 4) - AtanSeries(Mul(w, w), w, 1, w)
    ELSE AtanSeries(Mul(z, z), z, 1, z)

\* Math.atan2(y, x) for y >= 0, x >= 0, not both 0
Atan2(y, x) ==
    IF y <= x THEN AtanUnit((y * Scale) \div x)
    ELSE (PiScaled \div 2) - AtanUnit((x * Scale) \div y)

\* x / 2, rounded towards zero as ToRad rounds
Half(x) == IF x < 0 THEN 0 - ((0 - x) \div 2) ELSE x \div 2

\* distance in metres between whole-degree coordinates
Haversine(lat1, lon1, lat2, lon2) ==
    LET dLat == ToRad(lat2 - lat1)
        dLon == ToRad(lon2 - lon1)
        sLat == Sin(Half(dLat))
        sLon == Sin(Half(dLon))
        a == Mul(sLat, sLat) +
             Mul(Mul(Cos(ToRad(lat1)), Cos(ToRad(lat2))), Mul(sLon, sLon))
        c == 2 * Atan2(Sqrt(a), Sqrt(Scale - a))
    IN  (EarthRadiusKm * c) \div 10

Distance(lat1, lon1, lat2, lon2) ==
    IF lat1.nan \/ lon1.nan \/ lat2.nan \/ lon2.nan THEN NaN
    ELSE Num(Haversine(lat1.v, lon1.v, lat2.v, lon2.v))

\* x <= y on JavaScript numbers: false when either side is NaN
LessEq(x, y) == ~x.nan /\ ~y.nan /\ x.v <= y.v

\* faulty variant of NotesWithin: a note at exactly the radius is left out
NotesWithinStrict(notes, lat, lon, radius) ==
    { n \in notes : LET d == Distance(lat, lon, n.lat, n.lon)
                    IN  ~d.nan /\ d.v < radius }

\* the filter of getNotesByRadius (app.js:78)
NotesWithin(notes, lat, lon, radius) ==
    { n \in notes : LessEq(Distance(lat, lon, n.lat, n.lon), Num(radius)) }

\* a JavaScript string, and the value of a property that is missing
Str(s) == [undefined |-> FALSE, chars |-> s]
Undefined == [undefined |-> TRUE, chars |-> <<>>]

\* a text in a condition: undefined and '' count as false
Truthy(t) == ~t.undefined /\ t.chars # <<>>

\* typeof x === 'number'; NaN is a number in this sense
IsNumberType(x) == DOMAIN x = {"nan", "v"}

\* String.prototype.toLowerCase on the letters that occur in the model
LowerChar(c) ==
    CASE c = "A" -> "a" [] c = "B" -> "b" [] c = "T" -> "t" [] OTHER -> c

ToLowerCase(s) == [i \in 1..Len(s) |-> LowerChar(s[i])]

\* String.prototype.includes
Includes(s, sub) ==
    \E k \in 0..(Len(s) - Len(sub)) : SubSeq(s, k + 1, k + Len(sub)) = sub

\* faulty variant of SearchNotes: only the query is put into lower case
SearchNotesQueryLowered(notes, args) ==
    LET radius == IF args.radius = Undefined THEN Num(DefaultRadius)
                  ELSE args.radius
        lower == IF Truthy(args.text) THEN Str(ToLowerCase(args.text.chars))
                 ELSE Null
        textMatch(n) ==
            \/ lower = Null
            \/ Truthy(n.title) /\ Includes(n.title.chars, lower.chars)
            \/ Truthy(n.body) /\ Includes(n.body.chars, lower.chars)
        locMatch(n) ==
            IF ~IsNumberType(args.lat) \/ ~IsNumberType(args.lon) THEN TRUE
            ELSE LessEq(Distance(args.lat, args.lon, n.lat, n.lon), radius)
    IN  { n \in notes : textMatch(n) /\ locMatch(n) }

\* the filter of searchNotes (app.js:88-100); args holds text, lat, lon and
\* radius, each of which may be undefined
SearchNotes(notes, args) ==
    LET radius == IF args.radius = Undefined THEN Num(DefaultRadius)
                  ELSE args.radius
        lower == IF Truthy(args.text) THEN Str(ToLowerCase(args.text.chars))
                 ELSE Null
        textMatch(n) ==
            \/ lower = Null
            \/ Truthy(n.title) /\ Includes(ToLowerCase(n.title.chars), lower.chars)
            \/ Truthy(n.body) /\ Includes(ToLowerCase(n.body.chars), lower.chars)
        locMatch(n) ==
            IF ~IsNumberType(args.lat) \/ ~IsNumberType(args.lon) THEN TRUE
            ELSE LessEq(Distance(args.lat, args.lon, n.lat, n.lon), radius)
    IN  { n \in notes : textMatch(n) /\ locMatch(n) }

(***************************************************************************)
(* Inputs of the environment.                                              *)
(***************************************************************************)
\* what the user may have typed into the place-search box
Queries == { <<>>, <<" ">>, <<" ", "a", " ">> }

\* elements the place-lookup service may return
Places ==
    { [lat |-> <<"1">>, lon |-> <<"2">>, display_name |-> "Foo"],
      [lat |-> <<"-", "5">>, lon |-> <<"1", "6", "x">>, display_name |-> "Second"],
      [lat |-> <<"a", "b", "c">>, lon |-> <<"2">>, display_name |-> "Bad"] }

\* what res.json() may produce
JsonData ==
    { [type |-> "null", items |-> <<>>],
      [type |-> "object", items |-> <<>>],
      [type |-> "array", items |-> <<>>] }
    \cup { [type |-> "array", items |-> <<p>>] : p \in Places }

\* how an issued fetch may end
FetchOutcomes ==
    { [kind |-> "networkError", data |-> [type |-> "null", items |-> <<>>]],
      [kind |-> "jsonError", data |-> [type |-> "null", items |-> <<>>]] }
    \cup { [kind |-> "json", data |-> d] : d \in JsonData }

\* positions the device may report
DevicePositions ==
    { [coords |-> [latitude |-> Num(1), longitude |-> Num(2), accuracy |-> 5]],
      [coords |-> [latitude |-> Num(0 - 5), longitude |-> Num(16), accuracy |-> 5]] }

\* what the user may have typed into the note form
NoteInputs == { [title |-> Str(<<"T">>), body |-> Str(<<"b">>)] }
EmptyForm == [title |-> Str(<<>>), body |-> Str(<<>>)]

TickSteps == { 500 }

\* what the user may have typed into the note-search box
NoteQueries == { <<>>, <<" ", "B">>, <<"z">> }

\* notes that earlier sessions of the page may have left in the store: at
\* the two places the device reports, at a third place far from both, and
\* at a place whose latitude did not parse; one without a title, one
\* without a body.  The places lie hundreds of kilometres apart, where the
\* fixed-point distance is within a percent of the haversine value.
StoredNotes ==
    { [ id |-> 1, title |-> Str(<<"A", "b">>), body |-> Str(<<"x">>),
        lat |-> Num(1), lon |-> Num(2), createdAt |-> [iso |-> 1] ],
      [ id |-> 2, title |-> Undefined, body |-> Str(<<"a", "B">>),
        lat |-> Num(0 - 5), lon |-> Num(16), createdAt |-> [iso |-> 2] ],
      [ id |-> 3, title |-> Str(<<>>), body |-> Undefined,
        lat |-> Num(30), lon |-> Num(40), createdAt |-> [iso |-> 3] ],
      [ id |-> 4, title |-> Str(<<"b">>), body |-> Str(<<"x">>),
        lat |-> NaN, lon |-> Num(2), createdAt |-> [iso |-> 4] ] }

StoredStores == SUBSET StoredNotes

\* the distance in metres between the two places the device reports
EdgeRadius == Haversine(1, 2, 0 - 5, 16)

\* arguments a script may pass to searchNotes
SearchNotesArgs ==
    [ text : { Undefined, Str(<<>>), Str(<<"a">>), Str(<<"A", "B">>) },
      lat : { Undefined, Num(1), NaN },
      lon : { Undefined, Num(2) },
      radius : { Undefined, Num(EdgeRadius) } ]

\* radii a script may pass to getNotesByRadius
Radii == { NearbyRadius, EdgeRadius - 1, EdgeRadius }

VARIABLES
    now,               \* Date.now()
    geoSupported,      \* navigator.geolocation is present
    db,                \* dbPromise: "opening", "open" or "failed"
    store,             \* records of the object store 'notes'
    currentPosition,   \* locationStore
    selectedPosition,  \* locationStore
    lastSearchTime,
    locBtn,            \* [disabled, textContent]
    notesList,         \* what the nearby list shows
    noteFormDisplay,   \* noteForm.style.display
    noteFields,        \* value of the title and body inputs
    searchResult,      \* searchResult.textContent
    pendingGeo,        \* getCurrentPosition calls awaiting their callback
    pendingSearch,     \* place-search handlers suspended at await fetch
    saveTasks,         \* note-form handlers suspended at await addNote
    displayTasks,      \* displayNotes calls suspended at getNotesByRadius
    deleteTasks,       \* delete-button handlers suspended at await deleteNote
    noteSearchTasks,   \* note-search handlers suspended at one of their awaits
    apiCalls,          \* calls of window.searchNotes / getNotesByRadius by a script
    event,             \* the piece of code that ran in the last step
    alerted,           \* the alerts raised by the last step
    unhandled          \* promise rejections the last step left unhandled

vars == << now, geoSupported, db, store, currentPosition, selectedPosition,
           lastSearchTime, locBtn, notesList, noteFormDisplay, noteFields,
           searchResult, pendingGeo, pendingSearch, saveTasks, displayTasks,
           deleteTasks, noteSearchTasks, apiCalls, event, alerted, unhandled >>

RemoveAt(s, i) == SubSeq(s, 1, i - 1) \o SubSeq(s, i + 1, Len(s))

Message(text) == [text |-> text, notes |-> {}, base |-> <<>>]

\* renderNotes (app.js:284-332)
RenderNotes(notes, base) ==
    IF notes = {} THEN Message("No matching notes")
    ELSE [text |-> "", notes |-> notes, base |-> base]

\* IDBObjectStore.put with keyPath 'id' (app.js:34, 50)
Put(notes, note) == { n \in notes : n.id # note.id } \cup { note }

\* faulty variant of Delete: the record stays in the store
DeleteKeepsRecord(notes, id) == notes

\* IDBObjectStore.delete (app.js:84)
Delete(notes, id) == { n \in notes : n.id # id }

\* Date.prototype.toISOString of the creation instant
ToISOString(t) == [iso |-> t]

\* the note built by the note-form handler (app.js:363-373)
BuildNote(position, fields, t) ==
    [ id |-> t,
      title |-> fields.title,
      body |-> fields.body,
      lat |-> position.coords.latitude,
      lon |-> position.coords.longitude,
      createdAt |-> ToISOString(t) ]

\* faulty variant of RateLimited: the window is a tenth of what it should be
RateLimitedShortWindow(t, last) == t - last < 100

\* the rate-limit test of the place-search handler (app.js:204)
RateLimited(t, last) == t - last < RateLimitMs

\* faulty variant of PlacePosition: latitude and longitude are exchanged
PlacePositionSwapped(place) ==
    [coords |-> [latitude |-> ParseFloat(place.lon),
                 longitude |-> ParseFloat(place.lat)]]

\* the position a place search stores (app.js:225-230)
PlacePosition(place) ==
    [coords |-> [latitude |-> ParseFloat(place.lat),
                 longitude |-> ParseFloat(place.lon)]]

\* the stage at which a call that starts with "await dbPromise" suspends
AfterDb(next) == IF db = "open" THEN next ELSE "awaitDb"

\* the page once app.js has run and the load event has called displayNotes,
\* which finds no current position
Init ==
    /\ now = StartTime
    /\ geoSupported \in BOOLEAN
    /\ db = "opening"
    /\ store = {}
    /\ currentPosition = Null
    /\ selectedPosition = Null
    /\ lastSearchTime = InitialLastSearchTime
    /\ locBtn = [disabled |-> FALSE, textContent |-> "Get location"]
    /\ notesList = Message("Get location to view nearby notes")
    /\ noteFormDisplay = "none"
    /\ noteFields = EmptyForm
    /\ searchResult = ""
    /\ pendingGeo = <<>>
    /\ pendingSearch = <<>>
    /\ saveTasks = <<>>
    /\ displayTasks = <<>>
    /\ deleteTasks = <<>>
    /\ noteSearchTasks = <<>>
    /\ apiCalls = <<>>
    /\ event = [type |-> "init"]
    /\ alerted = <<>>
    /\ unhandled = 0

\* the page loaded over a store that earlier sessions have filled
InitStored ==
    /\ now = StartTime
    /\ geoSupported \in BOOLEAN
    /\ db = "opening"
    /\ store \in StoredStores
    /\ currentPosition = Null
    /\ selectedPosition = Null
    /\ lastSearchTime = InitialLastSearchTime
    /\ locBtn = [disabled |-> FALSE, textContent |-> "Get location"]
    /\ notesList = Message("Get location to view nearby notes")
    /\ noteFormDisplay = "none"
    /\ noteFields = EmptyForm
    /\ searchResult = ""
    /\ pendingGeo = <<>>
    /\ pendingSearch = <<>>
    /\ saveTasks = <<>>
    /\ displayTasks = <<>>
    /\ deleteTasks = <<>>
    /\ noteSearchTasks = <<>>
    /\ apiCalls = <<>>
    /\ event = [type |-> "init"]
    /\ alerted = <<>>
    /\ unhandled = 0

(***************************************************************************)
(* displayNotes (app.js:335-348) up to its first await.  With no current   *)
(* position it only writes a hint into the list; otherwise it starts       *)
(* getNotesByRadius, which awaits dbPromise and then reads the store.  A   *)
(* rejected dbPromise rejects the call, and nothing handles that.          *)
(***************************************************************************)
DisplayNotes(current) ==
    IF current = Null
    THEN /\ notesList' = Message("Get location to view nearby notes")
         /\ UNCHANGED displayTasks
         /\ unhandled' = 0
    ELSE /\ UNCHANGED notesList
         /\ IF db = "failed"
            THEN UNCHANGED displayTasks /\ unhandled' = 1
            ELSE /\ displayTasks' = Append(displayTasks,
                        [ lat |-> current.coords.latitude,
                          lon |-> current.coords.longitude,
                          stage |-> AfterDb("awaitReq") ])
                 /\ unhandled' = 0

DisplayRoom(current) ==
    current = Null \/ db = "failed" \/ Len(displayTasks) < MaxDisplays

\* the clock advances
Tick(d) ==
    /\ now + d <= StartTime + MaxElapsed
    /\ now' = now + d
    /\ event' = [type |-> "tick"]
    /\ alerted' = <<>>
    /\ unhandled' = 0
    /\ UNCHANGED << geoSupported, db, store, currentPosition, selectedPosition,
                    lastSearchTime, locBtn, notesList, noteFormDisplay,
                    noteFields, searchResult, pendingGeo, pendingSearch,
                    saveTasks, displayTasks,
                    deleteTasks, noteSearchTasks, apiCalls >>

(***************************************************************************)
(* fetchLocation (app.js:138-173) up to the getCurrentPosition call.       *)
(***************************************************************************)
FetchLocation ==
    IF ~geoSupported
    THEN /\ alerted' = <<"Geolocation not supported">>
         /\ UNCHANGED << locBtn, notesList, pendingGeo >>
    ELSE /\ locBtn' = [disabled |-> TRUE, textContent |-> "Getting location..."]
         /\ notesList' = Message("Getting location...")
         /\ pendingGeo' = Append(pendingGeo, [originalText |-> locBtn.textContent])
         /\ alerted' = <<>>

GeoRoom == ~geoSupported \/ Len(pendingGeo) < MaxGeo

\* click on the location button (app.js:283); a disabled button gets no click
LocBtnClick ==
    /\ ~locBtn.disabled
    /\ GeoRoom
    /\ FetchLocation
    /\ event' = [type |-> "locBtnClick"]
    /\ unhandled' = 0
    /\ UNCHANGED << now, geoSupported, db, store, currentPosition,
                    selectedPosition, lastSearchTime, noteFormDisplay,
                    noteFields, searchResult, pendingSearch, saveTasks,
                    displayTasks,
                    deleteTasks, noteSearchTasks, apiCalls >>

\* faulty variant of GeoSuccess: a position that is already selected is kept
GeoSuccessKeepsSelection(i, pos) ==
    /\ i \in 1..Len(pendingGeo)
    /\ DisplayRoom(pos)
    /\ currentPosition' = pos
    /\ selectedPosition' = IF selectedPosition = Null THEN pos ELSE selectedPosition
    /\ DisplayNotes(pos)
    /\ locBtn' = [disabled |-> FALSE, textContent |-> pendingGeo[i].originalText]
    /\ pendingGeo' = RemoveAt(pendingGeo, i)
    /\ event' = [type |-> "geoSuccess", position |-> pos]
    /\ alerted' = <<>>
    /\ UNCHANGED << now, geoSupported, db, store, lastSearchTime,
                    noteFormDisplay, noteFields, searchResult, pendingSearch,
                    saveTasks,
                    deleteTasks, noteSearchTasks, apiCalls >>

\* faulty variant of GeoSuccess: the fix becomes the current position only
GeoSuccessCurrentOnly(i, pos) ==
    /\ i \in 1..Len(pendingGeo)
    /\ DisplayRoom(pos)
    /\ currentPosition' = pos
    /\ DisplayNotes(pos)
    /\ locBtn' = [disabled |-> FALSE, textContent |-> pendingGeo[i].originalText]
    /\ pendingGeo' = RemoveAt(pendingGeo, i)
    /\ event' = [type |-> "geoSuccess", position |-> pos]
    /\ alerted' = <<>>
    /\ UNCHANGED << now, geoSupported, db, store, selectedPosition,
                    lastSearchTime, noteFormDisplay, noteFields, searchResult,
                    pendingSearch, saveTasks,
                    deleteTasks, noteSearchTasks, apiCalls >>

\* success callback of getCurrentPosition (app.js:153-162)
GeoSuccess(i, pos) ==
    /\ i \in 1..Len(pendingGeo)
    /\ DisplayRoom(pos)
    /\ currentPosition' = pos
    /\ selectedPosition' = pos
    /\ DisplayNotes(pos)
    /\ locBtn' = [disabled |-> FALSE, textContent |-> pendingGeo[i].originalText]
    /\ pendingGeo' = RemoveAt(pendingGeo, i)
    /\ event' = [type |-> "geoSuccess", position |-> pos]
    /\ alerted' = <<>>
    /\ UNCHANGED << now, geoSupported, db, store, lastSearchTime,
                    noteFormDisplay, noteFields, searchResult, pendingSearch,
                    saveTasks,
                    deleteTasks, noteSearchTasks, apiCalls >>

\* error callback of getCurrentPosition (app.js:163-171)
GeoError(i) ==
    /\ i \in 1..Len(pendingGeo)
    /\ alerted' = <<"Unable to retrieve location">>
    /\ locBtn' = [disabled |-> FALSE, textContent |-> pendingGeo[i].originalText]
    /\ notesList' = Message("Unable to retrieve location")
    /\ pendingGeo' = RemoveAt(pendingGeo, i)
    /\ event' = [type |-> "geoError"]
    /\ unhandled' = 0
    /\ UNCHANGED << now, geoSupported, db, store, currentPosition,
                    selectedPosition, lastSearchTime, noteFormDisplay,
                    noteFields, searchResult, pendingSearch, saveTasks,
                    displayTasks,
                    deleteTasks, noteSearchTasks, apiCalls >>

\* faulty variant of AddNoteBtnClick: opening the form never asks the device
AddNoteBtnClickNoFetch ==
    LET isOpen == noteFormDisplay = "block" IN
    /\ noteFormDisplay' = IF isOpen THEN "none" ELSE "block"
    /\ searchResult' = IF isOpen THEN "" ELSE searchResult
    /\ alerted' = <<>>
    /\ event' = [type |-> "addNoteBtnClick"]
    /\ unhandled' = 0
    /\ UNCHANGED << now, geoSupported, db, store, currentPosition,
                    selectedPosition, lastSearchTime, noteFields,
                    pendingSearch, saveTasks, displayTasks,
                    locBtn, notesList, pendingGeo,
                    deleteTasks, noteSearchTasks, apiCalls >>

\* click on the add-note button (app.js:175-184)
AddNoteBtnClick ==
    LET isOpen == noteFormDisplay = "block" IN
    /\ noteFormDisplay' = IF isOpen THEN "none" ELSE "block"
    /\ IF isOpen
       THEN /\ searchResult' = ""
            /\ alerted' = <<>>
            /\ UNCHANGED << locBtn, notesList, pendingGeo >>
       ELSE IF currentPosition = Null
       THEN /\ GeoRoom
            /\ FetchLocation
            /\ UNCHANGED searchResult
       ELSE /\ alerted' = <<>>
            /\ UNCHANGED << searchResult, locBtn, notesList, pendingGeo >>
    /\ event' = [type |-> "addNoteBtnClick"]
    /\ unhandled' = 0
    /\ UNCHANGED << now, geoSupported, db, store, currentPosition,
                    selectedPosition, lastSearchTime, noteFields,
                    pendingSearch, saveTasks, displayTasks,
                    deleteTasks, noteSearchTasks, apiCalls >>

\* faulty variant of CancelNoteBtnClick: cancelling also drops the selection
CancelNoteBtnClickClearsSelection ==
    /\ noteFields' = EmptyForm
    /\ noteFormDisplay' = "none"
    /\ searchResult' = ""
    /\ selectedPosition' = Null
    /\ event' = [type |-> "cancelNoteBtnClick"]
    /\ alerted' = <<>>
    /\ unhandled' = 0
    /\ UNCHANGED << now, geoSupported, db, store, currentPosition,
                    lastSearchTime, locBtn, notesList,
                    pendingGeo, pendingSearch, saveTasks, displayTasks,
                    deleteTasks, noteSearchTasks, apiCalls >>

\* click on the cancel button of the note form (app.js:186-190)
CancelNoteBtnClick ==
    /\ noteFields' = EmptyForm
    /\ noteFormDisplay' = "none"
    /\ searchResult' = ""
    /\ event' = [type |-> "cancelNoteBtnClick"]
    /\ alerted' = <<>>
    /\ unhandled' = 0
    /\ UNCHANGED << now, geoSupported, db, store, currentPosition,
                    selectedPosition, lastSearchTime, locBtn, notesList,
                    pendingGeo, pendingSearch, saveTasks, displayTasks,
                    deleteTasks, noteSearchTasks, apiCalls >>

\* the user types into the title and body inputs of the note form
TypeNote(input) ==
    /\ noteFields # input
    /\ noteFields' = input
    /\ event' = [type |-> "typeNote"]
    /\ alerted' = <<>>
    /\ unhandled' = 0
    /\ UNCHANGED << now, geoSupported, db, store, currentPosition,
                    selectedPosition, lastSearchTime, locBtn, notesList,
                    noteFormDisplay, searchResult, pendingGeo, pendingSearch,
                    saveTasks, displayTasks,
                    deleteTasks, noteSearchTasks, apiCalls >>

(***************************************************************************)
(* The place-search form (app.js:197-237).                                 *)
(***************************************************************************)
\* submit handler up to "await fetch"
SearchSubmit(text) ==
    LET query == Trim(text) IN
    /\ event' = [type |-> "searchSubmit", query |-> query]
    /\ unhandled' = 0
    /\ IF query = <<>>
       THEN /\ alerted' = <<>>
            /\ UNCHANGED << lastSearchTime, searchResult, pendingSearch >>
       ELSE IF RateLimited(now, lastSearchTime)
       THEN /\ alerted' = <<"Please wait before searching again.">>
            /\ UNCHANGED << lastSearchTime, searchResult, pendingSearch >>
       ELSE /\ Len(pendingSearch) < MaxSearches
            /\ lastSearchTime' = now
            /\ searchResult' = "Searching..."
            /\ pendingSearch' = Append(pendingSearch,
                   [query |-> query, submitted |-> now])
            /\ alerted' = <<>>
    /\ UNCHANGED << now, geoSupported, db, store, currentPosition,
                    selectedPosition, locBtn, notesList, noteFormDisplay,
                    noteFields, pendingGeo, saveTasks, displayTasks,
                    deleteTasks, noteSearchTasks, apiCalls >>

\* what the handler does with the parsed response (app.js:219-232)
SearchFound(place) ==
    /\ selectedPosition' = PlacePosition(place)
    /\ searchResult' = place.display_name
    /\ noteFormDisplay' = "block"

\* faulty variant of SearchEmpty: an empty answer drops the selection
SearchEmptyClearsSelection ==
    /\ searchResult' = "No results"
    /\ selectedPosition' = Null
    /\ UNCHANGED noteFormDisplay

SearchEmpty ==
    /\ searchResult' = "No results"
    /\ UNCHANGED << selectedPosition, noteFormDisplay >>

\* the catch block (app.js:233-236)
SearchFailed ==
    /\ searchResult' = "Search failed"
    /\ UNCHANGED << selectedPosition, noteFormDisplay >>

\* faulty variant of SearchSettle: the answer to a search is dropped when a
\* later search has been accepted since
SearchSettleLatestOnly(i, outcome) ==
    /\ i \in 1..Len(pendingSearch)
    /\ pendingSearch' = RemoveAt(pendingSearch, i)
    /\ event' = [type |-> "searchSettle", outcome |-> outcome,
                 task |-> pendingSearch[i]]
    /\ alerted' = <<>>
    /\ unhandled' = 0
    /\ IF pendingSearch[i].submitted # lastSearchTime
       THEN UNCHANGED << searchResult, selectedPosition, noteFormDisplay >>
       ELSE IF outcome.kind # "json" \/ outcome.data.type = "null"
       THEN SearchFailed
       ELSE IF outcome.data.type = "object" \/ Len(outcome.data.items) = 0
       THEN SearchEmpty
       ELSE SearchFound(outcome.data.items[1])
    /\ UNCHANGED << now, geoSupported, db, store, currentPosition,
                    lastSearchTime, locBtn, notesList, noteFields, pendingGeo,
                    saveTasks, displayTasks,
                    deleteTasks, noteSearchTasks, apiCalls >>

\* the handler resumes when fetch and res.json() have settled; reading
\* .length of null throws, an object without .length counts as empty
SearchSettle(i, outcome) ==
    /\ i \in 1..Len(pendingSearch)
    /\ pendingSearch' = RemoveAt(pendingSearch, i)
    /\ event' = [type |-> "searchSettle", outcome |-> outcome,
                 task |-> pendingSearch[i]]
    /\ alerted' = <<>>
    /\ unhandled' = 0
    /\ IF outcome.kind # "json" \/ outcome.data.type = "null"
       THEN SearchFailed
       ELSE IF outcome.data.type = "object" \/ Len(outcome.data.items) = 0
       THEN SearchEmpty
       ELSE SearchFound(outcome.data.items[1])
    /\ UNCHANGED << now, geoSupported, db, store, currentPosition,
                    lastSearchTime, locBtn, notesList, noteFields, pendingGeo,
                    saveTasks, displayTasks,
                    deleteTasks, noteSearchTasks, apiCalls >>

(***************************************************************************)
(* The note form (app.js:355-387) and addNote (app.js:40-52).              *)
(***************************************************************************)
\* faulty variant of NoteSubmit: the handler warns about a missing selection
\* but goes on, and the note gets no coordinates
NoteSubmitWarnsOnly ==
    /\ event' = [type |-> "noteSubmit"]
    /\ unhandled' = 0
    /\ db # "failed"
    /\ Len(saveTasks) < MaxSaves
    /\ alerted' = IF selectedPosition = Null
                  THEN <<"Select a location first">> ELSE <<>>
    /\ saveTasks' = Append(saveTasks,
           [ selectedPosition |-> selectedPosition,
             note |-> IF selectedPosition = Null
                      THEN [ id |-> now, title |-> noteFields.title,
                             body |-> noteFields.body, lat |-> NaN, lon |-> NaN,
                             createdAt |-> ToISOString(now) ]
                      ELSE BuildNote(selectedPosition, noteFields, now),
             stage |-> AfterDb("awaitTx") ])
    /\ UNCHANGED << now, geoSupported, db, store, currentPosition,
                    selectedPosition, lastSearchTime, locBtn, notesList,
                    noteFormDisplay, noteFields, pendingGeo, pendingSearch,
                    displayTasks, searchResult,
                    deleteTasks, noteSearchTasks, apiCalls >>

\* submit handler up to "await addNote(note)".  addNote awaits dbPromise:
\* when that is already rejected the catch and finally blocks run before
\* any other handler.
NoteSubmit ==
    /\ event' = [type |-> "noteSubmit"]
    /\ unhandled' = 0
    /\ IF selectedPosition = Null
       THEN /\ alerted' = <<"Select a location first">>
            /\ UNCHANGED << saveTasks, searchResult >>
       ELSE IF db = "failed"
       THEN /\ alerted' = <<"Failed to save note">>
            /\ searchResult' = ""
            /\ UNCHANGED saveTasks
       ELSE /\ Len(saveTasks) < MaxSaves
            /\ saveTasks' = Append(saveTasks,
                   [ selectedPosition |-> selectedPosition,
                     note |-> BuildNote(selectedPosition, noteFields, now),
                     stage |-> AfterDb("awaitTx") ])
            /\ alerted' = <<>>
            /\ UNCHANGED searchResult
    /\ UNCHANGED << now, geoSupported, db, store, currentPosition,
                    selectedPosition, lastSearchTime, locBtn, notesList,
                    noteFormDisplay, noteFields, pendingGeo, pendingSearch,
                    displayTasks,
                    deleteTasks, noteSearchTasks, apiCalls >>

\* faulty variant of SaveTxComplete: the coordinates of the note are read
\* from the location store when the write has finished
SaveTxCompleteLiveSelection(i) ==
    /\ i \in 1..Len(saveTasks)
    /\ saveTasks[i].stage = "awaitTx"
    /\ DisplayRoom(currentPosition)
    /\ store' = Put(store, [saveTasks[i].note EXCEPT
                              !.lat = selectedPosition.coords.latitude,
                              !.lon = selectedPosition.coords.longitude])
    /\ saveTasks' = RemoveAt(saveTasks, i)
    /\ noteFields' = EmptyForm
    /\ noteFormDisplay' = "none"
    /\ DisplayNotes(currentPosition)
    /\ searchResult' = ""
    /\ event' = [type |-> "saveTxComplete", task |-> saveTasks[i]]
    /\ alerted' = <<>>
    /\ UNCHANGED << now, geoSupported, db, currentPosition, selectedPosition,
                    lastSearchTime, locBtn, pendingGeo, pendingSearch,
                    deleteTasks, noteSearchTasks, apiCalls >>

\* tx.oncomplete: the put is committed, addNote resolves and the handler
\* runs the rest of its try block and the finally block
SaveTxComplete(i) ==
    /\ i \in 1..Len(saveTasks)
    /\ saveTasks[i].stage = "awaitTx"
    /\ DisplayRoom(currentPosition)
    /\ store' = Put(store, saveTasks[i].note)
    /\ saveTasks' = RemoveAt(saveTasks, i)
    /\ noteFields' = EmptyForm
    /\ noteFormDisplay' = "none"
    /\ DisplayNotes(currentPosition)
    /\ searchResult' = ""
    /\ event' = [type |-> "saveTxComplete", task |-> saveTasks[i]]
    /\ alerted' = <<>>
    /\ UNCHANGED << now, geoSupported, db, currentPosition, selectedPosition,
                    lastSearchTime, locBtn, pendingGeo, pendingSearch,
                    deleteTasks, noteSearchTasks, apiCalls >>

\* faulty variant of SaveTxError: the feedback text is cleared only when
\* the write succeeds
SaveTxErrorKeepsFeedback(i) ==
    /\ i \in 1..Len(saveTasks)
    /\ saveTasks[i].stage = "awaitTx"
    /\ saveTasks' = RemoveAt(saveTasks, i)
    /\ alerted' = <<"Failed to save note">>
    /\ event' = [type |-> "saveTxError"]
    /\ unhandled' = 0
    /\ UNCHANGED << now, geoSupported, db, store, currentPosition,
                    selectedPosition, lastSearchTime, locBtn, notesList,
                    noteFormDisplay, noteFields, pendingGeo, pendingSearch,
                    displayTasks, searchResult,
                    deleteTasks, noteSearchTasks, apiCalls >>

\* tx.onerror: addNote rejects, the catch and finally blocks run
SaveTxError(i) ==
    /\ i \in 1..Len(saveTasks)
    /\ saveTasks[i].stage = "awaitTx"
    /\ saveTasks' = RemoveAt(saveTasks, i)
    /\ alerted' = <<"Failed to save note">>
    /\ searchResult' = ""
    /\ event' = [type |-> "saveTxError"]
    /\ unhandled' = 0
    /\ UNCHANGED << now, geoSupported, db, store, currentPosition,
                    selectedPosition, lastSearchTime, locBtn, notesList,
                    noteFormDisplay, noteFields, pendingGeo, pendingSearch,
                    displayTasks,
                    deleteTasks, noteSearchTasks, apiCalls >>

\* the transaction aborts without an error event (transactionPromise sets
\* no onabort): the promise of addNote is never settled and the suspended
\* handler never runs again
SaveTxAbort(i) ==
    /\ i \in 1..Len(saveTasks)
    /\ saveTasks[i].stage = "awaitTx"
    /\ saveTasks' = RemoveAt(saveTasks, i)
    /\ event' = [type |-> "saveTxAbort"]
    /\ alerted' = <<>>
    /\ unhandled' = 0
    /\ UNCHANGED << now, geoSupported, db, store, currentPosition,
                    selectedPosition, lastSearchTime, locBtn, notesList,
                    noteFormDisplay, noteFields, searchResult, pendingGeo,
                    pendingSearch, displayTasks,
                    deleteTasks, noteSearchTasks, apiCalls >>

(***************************************************************************)
(* getNotesByRadius / getAllNotes (app.js:54-62, 76-79) for displayNotes.  *)
(* Transactions may finish in any order here; IndexedDB finishes a read    *)
(* and a write of the same store in the order of their creation, so the    *)
(* behaviours of the page are among those of the model.                    *)
(***************************************************************************)
\* req.onsuccess: the list shows the notes within the radius
DisplayReadSuccess(i) ==
    /\ i \in 1..Len(displayTasks)
    /\ displayTasks[i].stage = "awaitReq"
    /\ notesList' = RenderNotes(
           NotesWithin(store, displayTasks[i].lat, displayTasks[i].lon, NearbyRadius),
           << displayTasks[i].lat, displayTasks[i].lon >>)
    /\ displayTasks' = RemoveAt(displayTasks, i)
    /\ event' = [type |-> "displayReadSuccess", task |-> displayTasks[i]]
    /\ alerted' = <<>>
    /\ unhandled' = 0
    /\ UNCHANGED << now, geoSupported, db, store, currentPosition,
                    selectedPosition, lastSearchTime, locBtn, noteFormDisplay,
                    noteFields, searchResult, pendingGeo, pendingSearch,
                    saveTasks,
                    deleteTasks, noteSearchTasks, apiCalls >>

\* req.onerror: displayNotes rejects and nothing handles it
DisplayReadError(i) ==
    /\ i \in 1..Len(displayTasks)
    /\ displayTasks[i].stage = "awaitReq"
    /\ displayTasks' = RemoveAt(displayTasks, i)
    /\ event' = [type |-> "displayReadError"]
    /\ alerted' = <<>>
    /\ unhandled' = 1
    /\ UNCHANGED << now, geoSupported, db, store, currentPosition,
                    selectedPosition, lastSearchTime, locBtn, notesList,
                    noteFormDisplay, noteFields, searchResult, pendingGeo,
                    pendingSearch, saveTasks,
                    deleteTasks, noteSearchTasks, apiCalls >>

(***************************************************************************)
(* The delete button of a listed note (app.js:320-324) and deleteNote      *)
(* (app.js:81-86).  The handler keeps the array its list was rendered from *)
(* and the base coordinates of that rendering; nothing catches a rejected  *)
(* deleteNote.                                                             *)
(***************************************************************************)
\* click on the delete button of note n, up to "await deleteNote(n.id)"
DeleteClick(n) ==
    /\ n \in notesList.notes
    /\ event' = [type |-> "deleteClick", id |-> n.id]
    /\ alerted' = <<>>
    /\ IF db = "failed"
       THEN /\ unhandled' = 1
            /\ UNCHANGED deleteTasks
       ELSE /\ Len(deleteTasks) < MaxDeletes
            /\ deleteTasks' = Append(deleteTasks,
                   [ id |-> n.id,
                     notes |-> notesList.notes,
                     base |-> notesList.base,
                     stage |-> AfterDb("awaitTx") ])
            /\ unhandled' = 0
    /\ UNCHANGED << now, geoSupported, db, store, currentPosition,
                    selectedPosition, lastSearchTime, locBtn, notesList,
                    noteFormDisplay, noteFields, searchResult, pendingGeo,
                    pendingSearch, saveTasks, displayTasks, noteSearchTasks,
                    apiCalls >>

\* tx.oncomplete: the record is gone, deleteNote resolves and the handler
\* renders the notes of its list that remain
DeleteTxComplete(i) ==
    /\ i \in 1..Len(deleteTasks)
    /\ deleteTasks[i].stage = "awaitTx"
    /\ store' = Delete(store, deleteTasks[i].id)
    /\ notesList' = RenderNotes(
           { m \in deleteTasks[i].notes : m.id # deleteTasks[i].id },
           deleteTasks[i].base)
    /\ deleteTasks' = RemoveAt(deleteTasks, i)
    /\ event' = [type |-> "deleteTxComplete", task |-> deleteTasks[i],
                 removed |-> { n \in store : n.id = deleteTasks[i].id }]
    /\ alerted' = <<>>
    /\ unhandled' = 0
    /\ UNCHANGED << now, geoSupported, db, currentPosition, selectedPosition,
                    lastSearchTime, locBtn, noteFormDisplay, noteFields,
                    searchResult, pendingGeo, pendingSearch, saveTasks,
                    displayTasks, noteSearchTasks, apiCalls >>

\* tx.onerror: deleteNote rejects and the handler has no catch
DeleteTxError(i) ==
    /\ i \in 1..Len(deleteTasks)
    /\ deleteTasks[i].stage = "awaitTx"
    /\ deleteTasks' = RemoveAt(deleteTasks, i)
    /\ event' = [type |-> "deleteTxError"]
    /\ alerted' = <<>>
    /\ unhandled' = 1
    /\ UNCHANGED << now, geoSupported, db, store, currentPosition,
                    selectedPosition, lastSearchTime, locBtn, notesList,
                    noteFormDisplay, noteFields, searchResult, pendingGeo,
                    pendingSearch, saveTasks, displayTasks, noteSearchTasks,
                    apiCalls >>

\* the transaction aborts without an error event: the promise of deleteNote
\* is never settled
DeleteTxAbort(i) ==
    /\ i \in 1..Len(deleteTasks)
    /\ deleteTasks[i].stage = "awaitTx"
    /\ deleteTasks' = RemoveAt(deleteTasks, i)
    /\ event' = [type |-> "deleteTxAbort"]
    /\ alerted' = <<>>
    /\ unhandled' = 0
    /\ UNCHANGED << now, geoSupported, db, store, currentPosition,
                    selectedPosition, lastSearchTime, locBtn, notesList,
                    noteFormDisplay, noteFields, searchResult, pendingGeo,
                    pendingSearch, saveTasks, displayTasks, noteSearchTasks,
                    apiCalls >>

(***************************************************************************)
(* The note-search form (app.js:239-272).  The stored notes are searched   *)
(* for the text first; only when none matches is the place looked up, and  *)
(* the notes within NoteSearchRadius of the place found are listed.  The   *)
(* first searchNotes call stands before the try block.                     *)
(***************************************************************************)
\* the arguments of the two searchNotes calls of the handler
TextOnly(query) ==
    [text |-> Str(query), lat |-> Undefined, lon |-> Undefined,
     radius |-> Undefined]

Around(lat, lon) ==
    [text |-> Undefined, lat |-> lat, lon |-> lon,
     radius |-> Num(NoteSearchRadius)]

\* submit handler up to "await searchNotes({ text: query })"; lat and lon
\* of the task are assigned when the lookup has answered
NoteSearchSubmit(text) ==
    LET query == Trim(text) IN
    /\ event' = [type |-> "noteSearchSubmit", query |-> query]
    /\ alerted' = <<>>
    /\ IF query = <<>>
       THEN /\ unhandled' = 0
            /\ UNCHANGED noteSearchTasks
       ELSE IF db = "failed"
       THEN /\ unhandled' = 1
            /\ UNCHANGED noteSearchTasks
       ELSE /\ Len(noteSearchTasks) < MaxNoteSearches
            /\ noteSearchTasks' = Append(noteSearchTasks,
                   [ query |-> query, lat |-> NaN, lon |-> NaN,
                     stage |-> AfterDb("awaitNotes") ])
            /\ unhandled' = 0
    /\ UNCHANGED << now, geoSupported, db, store, currentPosition,
                    selectedPosition, lastSearchTime, locBtn, notesList,
                    noteFormDisplay, noteFields, searchResult, pendingGeo,
                    pendingSearch, saveTasks, displayTasks, deleteTasks,
                    apiCalls >>

\* the first searchNotes resolves: matching notes are listed, or the place
\* lookup is fetched (app.js:246-257)
NoteSearchNotesSuccess(i) ==
    /\ i \in 1..Len(noteSearchTasks)
    /\ noteSearchTasks[i].stage = "awaitNotes"
    /\ LET notes == SearchNotes(store, TextOnly(noteSearchTasks[i].query)) IN
       /\ IF notes # {}
          THEN /\ notesList' = RenderNotes(notes, <<>>)
               /\ noteSearchTasks' = RemoveAt(noteSearchTasks, i)
          ELSE /\ noteSearchTasks' =
                      [noteSearchTasks EXCEPT ![i].stage = "awaitFetch"]
               /\ UNCHANGED notesList
       /\ event' = [type |-> "noteSearchNotes", task |-> noteSearchTasks[i],
                    fetched |-> (notes = {})]
    /\ alerted' = <<>>
    /\ unhandled' = 0
    /\ UNCHANGED << now, geoSupported, db, store, currentPosition,
                    selectedPosition, lastSearchTime, locBtn, noteFormDisplay,
                    noteFields, searchResult, pendingGeo, pendingSearch,
                    saveTasks, displayTasks, deleteTasks, apiCalls >>

\* the first searchNotes rejects: the handler rejects, nothing handles it
NoteSearchNotesError(i) ==
    /\ i \in 1..Len(noteSearchTasks)
    /\ noteSearchTasks[i].stage = "awaitNotes"
    /\ noteSearchTasks' = RemoveAt(noteSearchTasks, i)
    /\ event' = [type |-> "noteSearchNotesError"]
    /\ alerted' = <<>>
    /\ unhandled' = 1
    /\ UNCHANGED << now, geoSupported, db, store, currentPosition,
                    selectedPosition, lastSearchTime, locBtn, notesList,
                    noteFormDisplay, noteFields, searchResult, pendingGeo,
                    pendingSearch, saveTasks, displayTasks, deleteTasks,
                    apiCalls >>

\* fetch and res.json() have settled (app.js:258-270): a failure, a null
\* body, an empty answer all end in renderNotes([]); a place starts the
\* second searchNotes
NoteSearchFetchSettle(i, outcome) ==
    /\ i \in 1..Len(noteSearchTasks)
    /\ noteSearchTasks[i].stage = "awaitFetch"
    /\ IF \/ outcome.kind # "json"
          \/ outcome.data.type \in {"null", "object"}
          \/ Len(outcome.data.items) = 0
       THEN /\ notesList' = RenderNotes({}, <<>>)
            /\ noteSearchTasks' = RemoveAt(noteSearchTasks, i)
       ELSE /\ noteSearchTasks' =
                   [noteSearchTasks EXCEPT
                      ![i].lat = ParseFloat(outcome.data.items[1].lat),
                      ![i].lon = ParseFloat(outcome.data.items[1].lon),
                      ![i].stage = AfterDb("awaitNear")]
            /\ UNCHANGED notesList
    /\ event' = [type |-> "noteSearchFetchSettle", outcome |-> outcome]
    /\ alerted' = <<>>
    /\ unhandled' = 0
    /\ UNCHANGED << now, geoSupported, db, store, currentPosition,
                    selectedPosition, lastSearchTime, locBtn, noteFormDisplay,
                    noteFields, searchResult, pendingGeo, pendingSearch,
                    saveTasks, displayTasks, deleteTasks, apiCalls >>

\* the second searchNotes resolves: the notes around the place are listed
NoteSearchNearSuccess(i) ==
    /\ i \in 1..Len(noteSearchTasks)
    /\ noteSearchTasks[i].stage = "awaitNear"
    /\ notesList' = RenderNotes(
           SearchNotes(store, Around(noteSearchTasks[i].lat, noteSearchTasks[i].lon)),
           << noteSearchTasks[i].lat, noteSearchTasks[i].lon >>)
    /\ noteSearchTasks' = RemoveAt(noteSearchTasks, i)
    /\ event' = [type |-> "noteSearchNear", task |-> noteSearchTasks[i]]
    /\ alerted' = <<>>
    /\ unhandled' = 0
    /\ UNCHANGED << now, geoSupported, db, store, currentPosition,
                    selectedPosition, lastSearchTime, locBtn, noteFormDisplay,
                    noteFields, searchResult, pendingGeo, pendingSearch,
                    saveTasks, displayTasks, deleteTasks, apiCalls >>

\* the second searchNotes rejects inside the try block: renderNotes([])
NoteSearchNearError(i) ==
    /\ i \in 1..Len(noteSearchTasks)
    /\ noteSearchTasks[i].stage = "awaitNear"
    /\ notesList' = RenderNotes({}, <<>>)
    /\ noteSearchTasks' = RemoveAt(noteSearchTasks, i)
    /\ event' = [type |-> "noteSearchNearError"]
    /\ alerted' = <<>>
    /\ unhandled' = 0
    /\ UNCHANGED << now, geoSupported, db, store, currentPosition,
                    selectedPosition, lastSearchTime, locBtn, noteFormDisplay,
                    noteFields, searchResult, pendingGeo, pendingSearch,
                    saveTasks, displayTasks, deleteTasks, apiCalls >>

(***************************************************************************)
(* searchNotes (app.js:88-101, exported on window) and getNotesByRadius    *)
(* (app.js:76-79) called by a script of the page: the call awaits          *)
(* dbPromise and the getAll request, and the filter is applied to what the *)
(* store holds when the request succeeds.                                  *)
(***************************************************************************)
ApiCall(fn, args) ==
    /\ event' = [type |-> "apiCall", fn |-> fn, args |-> args]
    /\ alerted' = <<>>
    /\ unhandled' = 0
    /\ IF db = "failed"
       THEN UNCHANGED apiCalls
       ELSE /\ Len(apiCalls) < MaxApiCalls
            /\ apiCalls' = Append(apiCalls,
                   [fn |-> fn, args |-> args, stage |-> AfterDb("awaitReq")])
    /\ UNCHANGED << now, geoSupported, db, store, currentPosition,
                    selectedPosition, lastSearchTime, locBtn, notesList,
                    noteFormDisplay, noteFields, searchResult, pendingGeo,
                    pendingSearch, saveTasks, displayTasks, deleteTasks,
                    noteSearchTasks >>

SearchNotesCall(args) == ApiCall("searchNotes", args)

GetNotesByRadiusCall(lat, lon, radius) ==
    ApiCall("getNotesByRadius", [lat |-> lat, lon |-> lon, radius |-> radius])

\* req.onsuccess: the promise of the call resolves with the filtered notes
ApiReadSuccess(i) ==
    /\ i \in 1..Len(apiCalls)
    /\ apiCalls[i].stage = "awaitReq"
    /\ apiCalls' = RemoveAt(apiCalls, i)
    /\ event' = [ type |-> "apiResult",
                  call |-> apiCalls[i],
                  result |->
                    IF apiCalls[i].fn = "searchNotes"
                    THEN SearchNotes(store, apiCalls[i].args)
                    ELSE NotesWithin(store, apiCalls[i].args.lat,
                                     apiCalls[i].args.lon,
                                     apiCalls[i].args.radius) ]
    /\ alerted' = <<>>
    /\ unhandled' = 0
    /\ UNCHANGED << now, geoSupported, db, store, currentPosition,
                    selectedPosition, lastSearchTime, locBtn, notesList,
                    noteFormDisplay, noteFields, searchResult, pendingGeo,
                    pendingSearch, saveTasks, displayTasks, deleteTasks,
                    noteSearchTasks >>

\* req.onerror: the promise of the call rejects to the script
ApiReadError(i) ==
    /\ i \in 1..Len(apiCalls)
    /\ apiCalls[i].stage = "awaitReq"
    /\ apiCalls' = RemoveAt(apiCalls, i)
    /\ event' = [type |-> "apiRejected", call |-> apiCalls[i]]
    /\ alerted' = <<>>
    /\ unhandled' = 0
    /\ UNCHANGED << now, geoSupported, db, store, currentPosition,
                    selectedPosition, lastSearchTime, locBtn, notesList,
                    noteFormDisplay, noteFields, searchResult, pendingGeo,
                    pendingSearch, saveTasks, displayTasks, deleteTasks,
                    noteSearchTasks >>

(***************************************************************************)
(* dbPromise (app.js:30-38).  Every call suspended at "await dbPromise"    *)
(* resumes in the same turn of the event loop in which it settles.         *)
(***************************************************************************)
AwaitingDb(tasks) == { i \in 1..Len(tasks) : tasks[i].stage = "awaitDb" }

Resume(tasks, next) ==
    [ i \in 1..Len(tasks) |->
        IF tasks[i].stage = "awaitDb" THEN [tasks[i] EXCEPT !.stage = next]
        ELSE tasks[i] ]

RECURSIVE DropAwaitingDb(_)
DropAwaitingDb(tasks) ==
    IF tasks = <<>> THEN <<>>
    ELSE IF Head(tasks).stage = "awaitDb" THEN DropAwaitingDb(Tail(tasks))
    ELSE << Head(tasks) >> \o DropAwaitingDb(Tail(tasks))

\* request.onsuccess
DbOpenSuccess ==
    /\ db = "opening"
    /\ db' = "open"
    /\ saveTasks' = Resume(saveTasks, "awaitTx")
    /\ displayTasks' = Resume(displayTasks, "awaitReq")
    /\ deleteTasks' = Resume(deleteTasks, "awaitTx")
    /\ noteSearchTasks' = Resume(noteSearchTasks, "awaitNotes")
    /\ apiCalls' = Resume(apiCalls, "awaitReq")
    /\ event' = [type |-> "dbOpenSuccess"]
    /\ alerted' = <<>>
    /\ unhandled' = 0
    /\ UNCHANGED << now, geoSupported, store, currentPosition,
                    selectedPosition, lastSearchTime, locBtn, notesList,
                    noteFormDisplay, noteFields, searchResult, pendingGeo,
                    pendingSearch >>

\* request.onerror: each suspended addNote rejects into the catch and
\* finally blocks of its note-form handler; each suspended displayNotes,
\* delete handler and note-search handler rejects unhandled; a suspended
\* script call rejects to its caller
DbOpenError ==
    /\ db = "opening"
    /\ db' = "failed"
    /\ saveTasks' = DropAwaitingDb(saveTasks)
    /\ displayTasks' = DropAwaitingDb(displayTasks)
    /\ alerted' = [ k \in 1..Cardinality(AwaitingDb(saveTasks)) |->
                      "Failed to save note" ]
    /\ searchResult' = IF AwaitingDb(saveTasks) # {} THEN "" ELSE searchResult
    /\ deleteTasks' = DropAwaitingDb(deleteTasks)
    /\ noteSearchTasks' = DropAwaitingDb(noteSearchTasks)
    /\ apiCalls' = DropAwaitingDb(apiCalls)
    /\ unhandled' = Cardinality(AwaitingDb(displayTasks))
                    + Cardinality(AwaitingDb(deleteTasks))
                    + Cardinality(AwaitingDb(noteSearchTasks))
    /\ event' = [type |-> "dbOpenError"]
    /\ UNCHANGED << now, geoSupported, store, currentPosition,
                    selectedPosition, lastSearchTime, locBtn, notesList,
                    noteFormDisplay, noteFields, pendingGeo, pendingSearch >>

Next ==
    \/ \E d \in TickSteps : Tick(d)
    \/ LocBtnClick
    \/ \E i \in 1..MaxGeo, pos \in DevicePositions : GeoSuccess(i, pos)
    \/ \E i \in 1..MaxGeo : GeoError(i)
    \/ AddNoteBtnClick
    \/ CancelNoteBtnClick
    \/ \E input \in NoteInputs : TypeNote(input)
    \/ \E text \in Queries : SearchSubmit(text)
    \/ \E i \in 1..MaxSearches, outcome \in FetchOutcomes : SearchSettle(i, outcome)
    \/ NoteSubmit
    \/ \E i \in 1..MaxSaves : SaveTxComplete(i)
    \/ \E i \in 1..MaxSaves : SaveTxError(i)
    \/ \E i \in 1..MaxSaves : SaveTxAbort(i)
    \/ \E i \in 1..MaxDisplays : DisplayReadSuccess(i)
    \/ \E i \in 1..MaxDisplays : DisplayReadError(i)
    \/ \E n \in notesList.notes : DeleteClick(n)
    \/ \E i \in 1..MaxDeletes : DeleteTxComplete(i)
    \/ \E i \in 1..MaxDeletes : DeleteTxError(i)
    \/ \E i \in 1..MaxDeletes : DeleteTxAbort(i)
    \/ \E text \in NoteQueries : NoteSearchSubmit(text)
    \/ \E i \in 1..MaxNoteSearches : NoteSearchNotesSuccess(i)
    \/ \E i \in 1..MaxNoteSearches : NoteSearchNotesError(i)
    \/ \E i \in 1..MaxNoteSearches, outcome \in FetchOutcomes :
          NoteSearchFetchSettle(i, outcome)
    \/ \E i \in 1..MaxNoteSearches : NoteSearchNearSuccess(i)
    \/ \E i \in 1..MaxNoteSearches : NoteSearchNearError(i)
    \/ \E args \in SearchNotesArgs : SearchNotesCall(args)
    \/ \E pos \in DevicePositions, radius \in Radii :
          GetNotesByRadiusCall(pos.coords.latitude, pos.coords.longitude, radius)
    \/ \E i \in 1..MaxApiCalls : ApiReadSuccess(i)
    \/ \E i \in 1..MaxApiCalls : ApiReadError(i)
    \/ DbOpenSuccess
    \/ DbOpenError

\* the whole page; the properties below are stated for the scenarios that
\* follow, which together contain every action
Spec == Init /\ [][Next]_vars

(***************************************************************************)
(* The page without the note form being submitted: location, place search  *)
(* and the opening and closing of the note form.                           *)
(***************************************************************************)
NextPlace ==
    \/ \E d \in TickSteps : Tick(d)
    \/ LocBtnClick
    \/ \E i \in 1..MaxGeo, pos \in DevicePositions : GeoSuccess(i, pos)
    \/ \E i \in 1..MaxGeo : GeoError(i)
    \/ AddNoteBtnClick
    \/ CancelNoteBtnClick
    \/ \E text \in Queries : SearchSubmit(text)
    \/ \E i \in 1..MaxSearches, outcome \in FetchOutcomes : SearchSettle(i, outcome)
    \/ \E i \in 1..MaxDisplays : DisplayReadSuccess(i)
    \/ \E i \in 1..MaxDisplays : DisplayReadError(i)
    \/ DbOpenSuccess
    \/ DbOpenError

SpecPlace == Init /\ [][NextPlace]_vars

(***************************************************************************)
(* The page at one instant of the clock: a position is selected by the     *)
(* device or by a place search, and notes are written.                     *)
(***************************************************************************)
NextNote ==
    \/ LocBtnClick
    \/ \E i \in 1..MaxGeo, pos \in DevicePositions : GeoSuccess(i, pos)
    \/ \E input \in NoteInputs : TypeNote(input)
    \/ \E text \in Queries : SearchSubmit(text)
    \/ \E i \in 1..MaxSearches, outcome \in FetchOutcomes : SearchSettle(i, outcome)
    \/ NoteSubmit
    \/ \E i \in 1..MaxSaves : SaveTxComplete(i)
    \/ \E i \in 1..MaxSaves : SaveTxError(i)
    \/ \E i \in 1..MaxSaves : SaveTxAbort(i)
    \/ \E i \in 1..MaxDisplays : DisplayReadSuccess(i)
    \/ DbOpenSuccess
    \/ DbOpenError

SpecNote == Init /\ [][NextNote]_vars

(***************************************************************************)
(* The note store: the device is located, notes are written for the place  *)
(* it reports, the nearby list is read and listed notes are deleted.       *)
(***************************************************************************)
NextStore ==
    \/ LocBtnClick
    \/ \E i \in 1..MaxGeo, pos \in DevicePositions : GeoSuccess(i, pos)
    \/ NoteSubmit
    \/ \E i \in 1..MaxSaves : SaveTxComplete(i)
    \/ \E i \in 1..MaxSaves : SaveTxError(i)
    \/ \E i \in 1..MaxDisplays : DisplayReadSuccess(i)
    \/ \E i \in 1..MaxDisplays : DisplayReadError(i)
    \/ \E n \in notesList.notes : DeleteClick(n)
    \/ \E i \in 1..MaxDeletes : DeleteTxComplete(i)
    \/ \E i \in 1..MaxDeletes : DeleteTxError(i)
    \/ \E i \in 1..MaxDeletes : DeleteTxAbort(i)
    \/ DbOpenSuccess
    \/ DbOpenError

SpecStore == Init /\ [][NextStore]_vars

(***************************************************************************)
(* A script calls searchNotes over a store filled by earlier sessions.     *)
(***************************************************************************)
NextQuery ==
    \/ \E args \in SearchNotesArgs : SearchNotesCall(args)
    \/ \E i \in 1..MaxApiCalls : ApiReadSuccess(i)
    \/ \E i \in 1..MaxApiCalls : ApiReadError(i)
    \/ DbOpenSuccess
    \/ DbOpenError

SpecQuery == InitStored /\ [][NextQuery]_vars

(***************************************************************************)
(* The nearby list over a store filled by earlier sessions: the device is  *)
(* located, a place search selects another position, and a script calls    *)
(* getNotesByRadius.                                                       *)
(***************************************************************************)
FoundOutcomes == { o \in FetchOutcomes : o.kind = "json" /\ o.data.type = "array" }

NextNearby ==
    \/ LocBtnClick
    \/ \E i \in 1..MaxGeo, pos \in DevicePositions : GeoSuccess(i, pos)
    \/ \E text \in Queries : SearchSubmit(text)
    \/ \E i \in 1..MaxSearches, outcome \in FoundOutcomes : SearchSettle(i, outcome)
    \/ \E pos \in DevicePositions, radius \in Radii :
          GetNotesByRadiusCall(pos.coords.latitude, pos.coords.longitude, radius)
    \/ \E i \in 1..MaxApiCalls : ApiReadSuccess(i)
    \/ \E i \in 1..MaxDisplays : DisplayReadSuccess(i)
    \/ DbOpenSuccess

\* all four notes are in the store
InitNearby == InitStored /\ store = StoredNotes

SpecNearby == InitNearby /\ [][NextNearby]_vars

(***************************************************************************)
(* The two forms that look places up: the place-search form and the        *)
(* note-search form, over a store filled by earlier sessions.              *)
(***************************************************************************)
NextLookup ==
    \/ \E d \in TickSteps : Tick(d)
    \/ \E text \in Queries : SearchSubmit(text)
    \/ \E i \in 1..MaxSearches, outcome \in FetchOutcomes : SearchSettle(i, outcome)
    \/ \E text \in NoteQueries : NoteSearchSubmit(text)
    \/ \E i \in 1..MaxNoteSearches : NoteSearchNotesSuccess(i)
    \/ \E i \in 1..MaxNoteSearches : NoteSearchNotesError(i)
    \/ \E i \in 1..MaxNoteSearches, outcome \in FetchOutcomes :
          NoteSearchFetchSettle(i, outcome)
    \/ \E i \in 1..MaxNoteSearches : NoteSearchNearSuccess(i)
    \/ \E i \in 1..MaxNoteSearches : NoteSearchNearError(i)
    \/ DbOpenSuccess
    \/ DbOpenError

SpecLookup == InitStored /\ [][NextLookup]_vars

(***************************************************************************)
(* Everything that reads or writes the location store at one instant of    *)
(* the clock: the device fetch and its failure, the place search, the note *)
(* form opened, closed, cancelled and submitted, and notes deleted.        *)
(***************************************************************************)
\* a search that fails, one without results and one that finds a place
SelectOutcomes ==
    { o \in FetchOutcomes :
        \/ o.kind = "networkError"
        \/ o.kind = "json" /\ o.data.type = "array" /\ o.data.items = <<>>
        \/ o.kind = "json" /\ o.data.type = "array" /\ Len(o.data.items) = 1
           /\ o.data.items[1].display_name = "Second" }

NextSelect ==
    \/ LocBtnClick
    \/ \E i \in 1..MaxGeo, pos \in DevicePositions : GeoSuccess(i, pos)
    \/ \E i \in 1..MaxGeo : GeoError(i)
    \/ AddNoteBtnClick
    \/ CancelNoteBtnClick
    \/ SearchSubmit(<<" ", "a", " ">>)
    \/ \E i \in 1..MaxSearches, outcome \in SelectOutcomes : SearchSettle(i, outcome)
    \/ NoteSubmit
    \/ \E i \in 1..MaxSaves : SaveTxComplete(i)
    \/ \E i \in 1..MaxDisplays : DisplayReadSuccess(i)
    \/ \E n \in notesList.notes : DeleteClick(n)
    \/ \E i \in 1..MaxDeletes : DeleteTxComplete(i)
    \/ DbOpenSuccess

SpecSelect == Init /\ [][NextSelect]_vars

(***************************************************************************)
(* Properties.  A step is recognised by the event it leaves behind; its    *)
(* inputs are the fields of that event.                                    *)
(***************************************************************************)
\* the number a coordinate text of the lookup service stands for
NumberOf(text) ==
    CASE text = <<"1">> -> Num(1)
      [] text = <<"2">> -> Num(2)
      [] text = <<"-", "5">> -> Num(0 - 5)
      [] text = <<"1", "6", "x">> -> Num(16)
      [] text = <<"a", "b", "c">> -> NaN

IsNumber(x) == ~x.nan

SettledWith(e) == e.type = "searchSettle"
ResultsOf(e) ==
    IF e.outcome.kind = "json" /\ e.outcome.data.type = "array"
    THEN e.outcome.data.items ELSE <<>>
ReturnedResults(e) ==
    SettledWith(e) /\ e.outcome.kind = "json" /\ e.outcome.data.type = "array"

\* C1: a place-search submission with a non-empty query made less than
\* 1000 ms after the last accepted one raises the alert 'Please wait before
\* searching again.', issues no request and leaves the rate-limiter
\* timestamp, the selected position and the feedback text as they were.
C1_RateLimitedSubmitRejected ==
    [][ ( /\ event'.type = "searchSubmit"
          /\ event'.query # <<>>
          /\ now - lastSearchTime < 1000 )
        => ( /\ alerted' = <<"Please wait before searching again.">>
             /\ pendingSearch' = pendingSearch
             /\ lastSearchTime' = lastSearchTime
             /\ selectedPosition' = selectedPosition
             /\ searchResult' = searchResult ) ]_vars

\* a submission 500 ms after the accepted one was rejected while an earlier
\* result is selected and displayed
C1_Witness ==
    /\ event.type = "searchSubmit"
    /\ event.query # <<>>
    /\ alerted = <<"Please wait before searching again.">>
    /\ now - lastSearchTime = 500
    /\ selectedPosition # Null
    /\ searchResult = "Foo"

\* C2: when a place search returns at least one result, selected becomes
\* the parsed latitude/longitude of the first result, the feedback text its
\* display name, the note form is opened and current is left unchanged.
C2_SearchFoundSetsOnlySelected ==
    [][ ( ReturnedResults(event') /\ Len(ResultsOf(event')) >= 1 )
        => LET place == ResultsOf(event')[1] IN
           /\ selectedPosition' =
                [coords |-> [latitude |-> NumberOf(place.lat),
                             longitude |-> NumberOf(place.lon)]]
           /\ searchResult' = place.display_name
           /\ noteFormDisplay' = "block"
           /\ currentPosition' = currentPosition ]_vars

\* a search has selected (-5, 16) while the device is known to be at (1, 2)
C2_Witness ==
    /\ ReturnedResults(event)
    /\ Len(ResultsOf(event)) = 1
    /\ ResultsOf(event)[1].display_name = "Second"
    /\ selectedPosition = [coords |-> [latitude |-> Num(0 - 5), longitude |-> Num(16)]]
    /\ currentPosition # Null
    /\ currentPosition.coords.latitude = Num(1)
    /\ noteFormDisplay = "block"

\* C3: a successful device-location fetch sets current and selected to the
\* position obtained, whatever was selected before; a failed one changes
\* neither.
C3_DeviceFixSetsBoth ==
    [][ /\ event'.type = "geoSuccess"
           => ( /\ currentPosition' = event'.position
                /\ selectedPosition' = event'.position )
        /\ event'.type = "geoError"
           => ( /\ currentPosition' = currentPosition
                /\ selectedPosition' = selectedPosition ) ]_vars

\* the device fix replaced the selection made by the search still displayed
C3_Witness ==
    /\ event.type = "geoSuccess"
    /\ searchResult = "Foo"
    /\ selectedPosition = event.position
    /\ currentPosition = event.position
    /\ event.position.coords.latitude = Num(0 - 5)

\* C4: when a place search returns zero results the feedback text becomes
\* 'No results', selected keeps its value and the note form is not opened.
C4_SearchEmptyKeepsSelected ==
    [][ ( ReturnedResults(event') /\ Len(ResultsOf(event')) = 0 )
        => ( /\ searchResult' = "No results"
             /\ selectedPosition' = selectedPosition
             /\ noteFormDisplay' = noteFormDisplay ) ]_vars

\* an empty answer arrived while a position was selected and the form closed
C4_Witness ==
    /\ ReturnedResults(event)
    /\ Len(ResultsOf(event)) = 0
    /\ searchResult = "No results"
    /\ selectedPosition # Null
    /\ noteFormDisplay = "none"

\* C5: when a place search fails by a network failure or an unparseable
\* response, a first result whose lat or lon is no number included, the
\* feedback text becomes 'Search failed' and selected is not altered.
C5_SearchFailureKeepsSelected ==
    [][ ( /\ SettledWith(event')
          /\ \/ event'.outcome.kind \in {"networkError", "jsonError"}
             \/ /\ Len(ResultsOf(event')) >= 1
                /\ \/ ~IsNumber(NumberOf(ResultsOf(event')[1].lat))
                   \/ ~IsNumber(NumberOf(ResultsOf(event')[1].lon)) )
        => ( /\ searchResult' = "Search failed"
             /\ selectedPosition' = selectedPosition ) ]_vars

\* C6: a note-form submission while selected is null raises the alert
\* 'Select a location first' and starts no write, the store stays as it is;
\* so while nothing has been selected no note is stored or being written.
C6_NoSelectionNoSave ==
    /\ [](selectedPosition = Null => (store = {} /\ saveTasks = <<>>))
    /\ [][ ( event'.type = "noteSubmit" /\ selectedPosition = Null )
           => ( /\ alerted' = <<"Select a location first">>
                /\ saveTasks' = saveTasks
                /\ store' = store ) ]_vars

\* a filled note form was submitted with nothing selected
C6_Witness ==
    /\ event.type = "noteSubmit"
    /\ alerted = <<"Select a location first">>
    /\ selectedPosition = Null
    /\ noteFields.title = Str(<<"T">>)
    /\ db = "open"

\* C7: the note written by a submission carries the latitude and longitude
\* selected at the moment of the submission, also when selected has changed
\* before the write is committed.
C7_NoteCarriesSubmittedSelection ==
    [][ /\ ( event'.type = "noteSubmit" /\ Len(saveTasks') = Len(saveTasks) + 1 )
           => LET task == saveTasks'[Len(saveTasks')] IN
              /\ task.selectedPosition = selectedPosition
              /\ task.note.lat = selectedPosition.coords.latitude
              /\ task.note.lon = selectedPosition.coords.longitude
        /\ event'.type = "saveTxComplete"
           => \E n \in store' :
                /\ n.id = event'.task.note.id
                /\ n.lat = event'.task.selectedPosition.coords.latitude
                /\ n.lon = event'.task.selectedPosition.coords.longitude
                /\ n.title = event'.task.note.title
                /\ n.body = event'.task.note.body ]_vars

\* the note was submitted for the place found by the search and committed
\* after the device fix had replaced the selection
C7_Witness ==
    /\ event.type = "saveTxComplete"
    /\ event.task.selectedPosition = [coords |-> [latitude |-> Num(1), longitude |-> Num(2)]]
    /\ selectedPosition # event.task.selectedPosition
    /\ selectedPosition.coords.latitude = Num(0 - 5)
    /\ \E n \in store : n.lat = Num(1) /\ n.lon = Num(2)

\* what a call of displayNotes leaves behind
NearbyListRefreshed ==
    IF currentPosition = Null
    THEN notesList' = Message("Get location to view nearby notes")
    ELSE /\ Len(displayTasks') = Len(displayTasks) + 1
         /\ displayTasks'[Len(displayTasks')].lat = currentPosition.coords.latitude
         /\ displayTasks'[Len(displayTasks')].lon = currentPosition.coords.longitude

\* C8: when the write of a submitted note has settled the feedback text is
\* '': after a committed write the form is reset and hidden and the nearby
\* list refreshed, after a rejected write 'Failed to save note' is alerted
\* and nothing is stored.
C8_SaveSettledClearsFeedback ==
    [][ /\ event'.type = "saveTxComplete"
           => ( /\ searchResult' = ""
                /\ noteFields' = EmptyForm
                /\ noteFormDisplay' = "none"
                /\ NearbyListRefreshed
                /\ alerted' = <<>> )
        /\ ( \/ event'.type = "saveTxError"
             \/ ( event'.type = "noteSubmit" /\ selectedPosition # Null /\ db = "failed" )
             \/ ( event'.type = "dbOpenError" /\ AwaitingDb(saveTasks) # {} ) )
           => ( /\ searchResult' = ""
                /\ alerted' # <<>>
                /\ \A k \in 1..Len(alerted') : alerted'[k] = "Failed to save note"
                /\ store' = store ) ]_vars

\* the write of a note for the place found by a search was rejected
C8_Witness ==
    /\ event.type = "saveTxError"
    /\ alerted = <<"Failed to save note">>
    /\ searchResult = ""
    /\ noteFormDisplay = "block"
    /\ selectedPosition = [coords |-> [latitude |-> Num(1), longitude |-> Num(2)]]
    /\ store = {}

ClosesForm(e) ==
    \/ ( e.type = "addNoteBtnClick" /\ noteFormDisplay = "block" )
    \/ e.type = "cancelNoteBtnClick"

\* C9: closing the note form, by the add-note button while it is open or by
\* the cancel button, clears the feedback text and leaves selected and
\* current unchanged.
C9_ClosingFormKeepsSelection ==
    [][ ClosesForm(event')
        => ( /\ noteFormDisplay' = "none"
             /\ searchResult' = ""
             /\ selectedPosition' = selectedPosition
             /\ currentPosition' = currentPosition ) ]_vars

\* the form opened by a search was closed with the add-note button, and the
\* place found is still selected
C9_Witness ==
    /\ event.type = "addNoteBtnClick"
    /\ noteFormDisplay = "none"
    /\ searchResult = ""
    /\ selectedPosition = [coords |-> [latitude |-> Num(1), longitude |-> Num(2)]]
    /\ currentPosition = Null

\* fetchLocation was called: a request to the device was started, or the
\* lack of geolocation was reported
LocationFetchTriggered ==
    IF geoSupported
    THEN /\ Len(pendingGeo') = Len(pendingGeo) + 1
         /\ alerted' = <<>>
    ELSE /\ pendingGeo' = pendingGeo
         /\ alerted' = <<"Geolocation not supported">>

OpensForm == noteFormDisplay # "block" /\ noteFormDisplay' = "block"

\* C10 as claimed: whenever the note form goes from closed to open while no
\* current position is known, a device-location fetch is triggered, however
\* the form was opened (stated for a device that has geolocation).
C10_EveryOpeningFetches ==
    [][ ( geoSupported /\ OpensForm /\ currentPosition = Null )
        => LocationFetchTriggered ]_vars

\* C10: when the add-note button opens the note form while no current
\* position is known, fetchLocation is called (a device-location fetch
\* starts, or the lack of geolocation is alerted); a place search that opens
\* the form starts no location fetch.
C10_ToggleOpeningFetches ==
    [][ /\ ( event'.type = "addNoteBtnClick" /\ OpensForm /\ currentPosition = Null )
           => LocationFetchTriggered
        /\ SettledWith(event')
           => ( pendingGeo' = pendingGeo /\ alerted' = <<>> ) ]_vars

\* the add-note button opened the form and a device fetch is outstanding
C10_Witness ==
    /\ event.type = "addNoteBtnClick"
    /\ noteFormDisplay = "block"
    /\ currentPosition = Null
    /\ Len(pendingGeo) = 1
    /\ locBtn.disabled

\* the stored notes that lie exactly at the given coordinates
NotesAt(notes, lat, lon) ==
    { n \in notes : IsNumber(lat) /\ IsNumber(lon) /\ n.lat = lat /\ n.lon = lon }

\* C11: once addNote(n) has completed the store holds a note equal to n and
\* a read returns it; once deleteNote(id) has completed the store holds no
\* note with that identifier and every other note is still there; deleting
\* an identifier that is not stored completes without an error and leaves
\* the store as it was; a read returns stored notes only.
C11_StoreRoundTrip ==
    [][ /\ event'.type = "saveTxComplete"
           => ( /\ event'.task.note \in store'
                /\ store' \ { event'.task.note } \subseteq store )
        /\ event'.type = "deleteTxComplete"
           => ( /\ \A n \in store' : n.id # event'.task.id
                /\ store' = { n \in store : n.id # event'.task.id }
                /\ alerted' = <<>>
                /\ unhandled' = 0
                /\ ( (\A n \in store : n.id # event'.task.id) => store' = store ) )
        /\ event'.type = "displayReadSuccess"
           => ( /\ notesList'.notes \subseteq store
                /\ NotesAt(store, event'.task.lat, event'.task.lon)
                      \subseteq notesList'.notes ) ]_vars

\* the delete button of a listed note was clicked twice; the second
\* deleteNote found the record gone and completed without an error
C11_Witness ==
    /\ event.type = "deleteTxComplete"
    /\ event.removed = {}
    /\ event.task.notes # {}
    /\ store = {}
    /\ unhandled = 0
    /\ notesList = Message("No matching notes")

\* C12 as claimed: no two stored notes share an identifier; a step other
\* than a committed deletion removes or changes no stored note; every
\* committed save of the note form adds exactly one note to the store.
C12_SavedNotesPersist ==
    [][ /\ \A a, b \in store' : a.id = b.id => a = b
        /\ event'.type # "deleteTxComplete" => store \subseteq store'
        /\ event'.type = "saveTxComplete"
           => Cardinality(store') = Cardinality(store) + 1 ]_vars

\* the note lies no farther than r metres from (lat, lon)
WithinRadius(lat, lon, n, r) ==
    LET d == Distance(lat, lon, n.lat, n.lon) IN IsNumber(d) /\ d.v <= r

\* C13: getNotesByRadius(lat, lon, r) returns exactly the stored notes whose
\* distance from (lat, lon) is at most r, a note at distance r included; the
\* nearby list is read for the current position, not the selected one, and
\* shows exactly the stored notes within 100 m of it.
C13_RadiusQueryExact ==
    [][ /\ ( event'.type = "apiResult" /\ event'.call.fn = "getNotesByRadius" )
           => LET a == event'.call.args IN
              /\ event'.result \subseteq store
              /\ \A n \in store :
                    n \in event'.result <=> WithinRadius(a.lat, a.lon, n, a.radius)
        /\ Len(displayTasks') > Len(displayTasks)
           => ( /\ currentPosition' # Null
                /\ displayTasks'[Len(displayTasks')].lat = currentPosition'.coords.latitude
                /\ displayTasks'[Len(displayTasks')].lon = currentPosition'.coords.longitude )
        /\ event'.type = "displayReadSuccess"
           => LET t == event'.task IN
              notesList'.notes = { n \in store : WithinRadius(t.lat, t.lon, n, 100) }
      ]_vars

\* the list shows the one note at the device's place while another place
\* is selected, and a script's query with the radius equal to the distance
\* of the second note returned both and left out the farther note and the
\* note without a latitude
C13_Witness ==
    /\ event.type = "apiResult"
    /\ event.call.fn = "getNotesByRadius"
    /\ event.call.args.lat = Num(1)
    /\ event.call.args.radius = EdgeRadius
    /\ store = StoredNotes
    /\ { n.id : n \in event.result } = {1, 2}
    /\ \E n \in event.result :
          Distance(Num(1), Num(2), n.lat, n.lon) = Num(event.call.args.radius)
    /\ currentPosition # Null
    /\ currentPosition.coords.latitude = Num(1)
    /\ selectedPosition # Null
    /\ selectedPosition.coords.latitude = Num(0 - 5)
    /\ { n.id : n \in notesList.notes } = {1}

\* c and d are the same letter in either case
SameLetter(c, d) ==
    c = d \/ {c, d} \in { {"A", "a"}, {"B", "b"}, {"T", "t"} }

\* sub occurs in s when the case of letters is ignored
OccursIgnoringCase(sub, s) ==
    \E k \in 0..(Len(s) - Len(sub)) :
        \A j \in 1..Len(sub) : SameLetter(s[k + j], sub[j])

TextGiven(a) == a.text # Undefined /\ a.text.chars # <<>>

PlaceGiven(a) == a.lat # Undefined /\ a.lon # Undefined

MatchesText(n, text) ==
    \/ n.title # Undefined /\ OccursIgnoringCase(text.chars, n.title.chars)
    \/ n.body # Undefined /\ OccursIgnoringCase(text.chars, n.body.chars)

\* C14: searchNotes({text, lat, lon, radius = 100}) returns exactly the
\* stored notes that match every predicate supplied: the text, when given
\* and not empty, occurs in the title or the body whatever the case; the
\* note lies within the radius of (lat, lon) when both are given.  Without a
\* text, or with only one of lat and lon, that predicate passes; a note
\* without a title or a body raises no error.
C14_SearchNotesExact ==
    [][ ( event'.type = "apiResult" /\ event'.call.fn = "searchNotes" )
        => LET a == event'.call.args
               r == IF a.radius = Undefined THEN 100 ELSE a.radius.v
           IN  /\ event'.result \subseteq store
               /\ \A n \in store :
                     n \in event'.result
                     <=> ( /\ TextGiven(a) => MatchesText(n, a.text)
                           /\ PlaceGiven(a) => WithinRadius(a.lat, a.lon, n, r) )
      ]_vars

\* 'AB' with a latitude but no longitude returned the note titled 'Ab' and
\* the far note without a title whose body is 'aB'; the note without a body
\* and the note titled 'b' were passed over
C14_Witness ==
    /\ event.type = "apiResult"
    /\ event.call.fn = "searchNotes"
    /\ event.call.args.text = Str(<<"A", "B">>)
    /\ event.call.args.lat = Num(1)
    /\ event.call.args.lon = Undefined
    /\ store = StoredNotes
    /\ { n.id : n \in event.result } = {1, 2}

\* C15 as claimed: no failure escapes a handler, so no step leaves a
\* rejected promise without a handler.
C15_NoErrorEscapes == unhandled = 0

\* C16 as claimed: addNote settles with its transaction; when the
\* transaction has errored or aborted the note-form handler reports
\* 'Failed to save note', and however the transaction has ended the handler
\* clears the search feedback.
C16_SaveSettlesWithTransaction ==
    [][ /\ event'.type \in {"saveTxError", "saveTxAbort"}
           => alerted' = <<"Failed to save note">>
        /\ event'.type \in {"saveTxComplete", "saveTxError", "saveTxAbort"}
           => searchResult' = "" ]_vars

\* the calls that wait for the store to be opened
WaitingForStore ==
    Cardinality(AwaitingDb(saveTasks)) + Cardinality(AwaitingDb(displayTasks))
    + Cardinality(AwaitingDb(deleteTasks)) + Cardinality(AwaitingDb(noteSearchTasks))
    + Cardinality(AwaitingDb(apiCalls))

\* C17 as claimed: the store is opened by the first persistence operation
\* and not before, so when the opening succeeds or fails at least that
\* operation is waiting for it.
C17_OpenedByFirstOperation ==
    [][ event'.type \in {"dbOpenSuccess", "dbOpenError"}
        => WaitingForStore >= 1 ]_vars

\* the search that settles was submitted before the latest accepted one
Overtaken(e) == SettledWith(e) /\ e.task.submitted < lastSearchTime

FoundPlace(e) == ReturnedResults(e) /\ Len(ResultsOf(e)) >= 1

\* C18: a place search accepted while another is in flight leaves that one
\* pending, and a search that settles removes only itself; a search that
\* settles with a place after a later-submitted one has been accepted, the
\* later one completed or not, overwrites selected and the feedback text
\* with its own result, just as the latest-submitted one does.
C18_LastCompletedSearchWins ==
    [][ /\ ( event'.type = "searchSubmit" /\ pendingSearch' # pendingSearch )
           => ( /\ Len(pendingSearch') = Len(pendingSearch) + 1
                /\ SubSeq(pendingSearch', 1, Len(pendingSearch)) = pendingSearch )
        /\ SettledWith(event')
           => Len(pendingSearch') = Len(pendingSearch) - 1
        /\ ( FoundPlace(event') /\ Overtaken(event') )
           => LET place == ResultsOf(event')[1] IN
              /\ selectedPosition' =
                   [coords |-> [latitude |-> NumberOf(place.lat),
                                longitude |-> NumberOf(place.lon)]]
              /\ searchResult' = place.display_name
        /\ ( FoundPlace(event') /\ ~Overtaken(event') )
           => LET place == ResultsOf(event')[1] IN
              /\ selectedPosition' =
                   [coords |-> [latitude |-> NumberOf(place.lat),
                                longitude |-> NumberOf(place.lon)]]
              /\ searchResult' = place.display_name ]_vars

\* the search submitted at 1000 settled with 'Foo' after the search
\* submitted at 2000 had completed: 'Foo' is shown and selected
C18_Witness ==
    /\ FoundPlace(event)
    /\ event.task.submitted = 1000
    /\ lastSearchTime = 2000
    /\ pendingSearch = <<>>
    /\ ResultsOf(event)[1].display_name = "Foo"
    /\ searchResult = "Foo"
    /\ selectedPosition = [coords |-> [latitude |-> Num(1), longitude |-> Num(2)]]

\* the coordinate pairs the page holds: the current and the selected
\* position and the places of the stored notes
HeldCoordinates ==
    { << p.coords.latitude, p.coords.longitude >> :
        p \in {currentPosition, selectedPosition} \ {Null} }
    \cup { << n.lat, n.lon >> : n \in store }

\* C19 as claimed: for the coordinate pairs A and B the page holds,
\* distance(A, A) is 0, distance(A, B) equals distance(B, A) and no distance
\* is negative.
C19_DistanceLaws ==
    \A a, b \in HeldCoordinates :
        /\ Distance(a[1], a[2], a[1], a[2]) = Num(0)
        /\ Distance(a[1], a[2], b[1], b[2]) = Distance(b[1], b[2], a[1], a[2])
        /\ ~ ( IsNumber(Distance(a[1], a[2], b[1], b[2]))
               /\ Distance(a[1], a[2], b[1], b[2]).v < 0 )

\* the step issues a request to the place-lookup service
IssuesLookup ==
    \/ event'.type = "searchSubmit" /\ Len(pendingSearch') = Len(pendingSearch) + 1
    \/ event'.type = "noteSearchNotes" /\ event'.fetched

\* C20 as claimed: a lookup request, whichever form issues it, is at least
\* 1000 ms later than the last request of the place-search form.
C20_AllLookupsRateLimited ==
    [][ IssuesLookup => now - lastSearchTime >= 1000 ]_vars

\* C21: whenever the current position is set the selected position is set
\* too, and no step returns a selected position to null: not a search
\* without results or one that failed, not a failed device fetch, not the
\* closing or cancelling of the note form, not the saving or deleting of a
\* note.
C21_SelectedStaysSet ==
    /\ [](currentPosition # Null => selectedPosition # Null)
    /\ [][selectedPosition # Null => selectedPosition' # Null]_vars

\* a search failed after the device was located and a note was saved
C21_Witness ==
    /\ event.type = "searchSettle"
    /\ searchResult = "Search failed"
    /\ currentPosition # Null
    /\ selectedPosition # Null
    /\ store # {}

\* C22 as claimed: the location button is disabled only while a device
\* fetch is outstanding, and when no fetch is outstanding it is enabled and
\* shows its original label 'Get location'.
C22_LocBtnRestored ==
    /\ locBtn.disabled => pendingGeo # <<>>
    /\ pendingGeo = <<>>
       => ( ~locBtn.disabled /\ locBtn.textContent = "Get location" )

====
